---- MODULE Spec2Model ----
(***************************************************************************)
(* Model of app/user_interface/fastapi/middleware/logger.py: the Logger    *)
(* and Recovery middlewares wrapped around a route handler.                *)
(*                                                                         *)
(* Every request runs through the application's middleware chain           *)
(* (outermost first).  A middleware's dispatch is split at its only real   *)
(* suspension point, `await call_next(request)`: the part before it is an  *)
(* Enter action, the part after it a Resume / Propagate / Catch action.    *)
(* Requests are interleaved at these points, as on one asyncio event loop. *)
(*                                                                         *)
(* JsonFormatter is modelled apart (SpecFmt): the logging module creates   *)
(* LogRecords with bounded contents and the handler formats each of them.  *)
(***************************************************************************)
EXTENDS Integers, Sequences, FiniteSets, TLC

\* ---------------------------------------------------------------- bounds
MaxHandlerErrors == 2   \* entries a handler appends to request.state.errors
MaxClock == 1           \* largest reading of time.time()
MaxExtras == 2          \* fields attached to one LogRecord

\* Two requests in flight: every property below is about one request or
\* about a pair of them.
Requests == {1, 2}

\* Diagnostic strings a handler pushes into request.state.errors, in the
\* order it finds them; how many it pushes is its choice.
HandlerTexts == <<"name is required", "age must be positive">>
HandlerText(k) == HandlerTexts[((k - 1) % Len(HandlerTexts)) + 1]
\* Exceptions a handler may raise.
Faults == {"ValueError", "CancelledError"}
\* Status codes and body a handler may return.
Statuses == {200, 400, 500}
HandlerBody == "payload"

INTERNAL_SERVER_ERROR == 500

\* Middleware compositions of the application, outermost first.
Chains == { <<"Logger", "Recovery">>, <<"Logger">>,
            <<"Recovery">>, <<"Recovery", "Logger">> }

\* ------------------------------------------------------- inbound requests
\* The request objects the server hands to the chain (method, url.path,
\* scope["http_version"], headers in arrival order, client host or none).
RequestTable ==
    << [method |-> "GET", path |-> "/health", http_version |-> "1.1",
        headers |-> << <<"host", "svc">>, <<"user-agent", "curl">> >>,
        has_client |-> TRUE, client_host |-> "10.0.0.1"],
       [method |-> "POST", path |-> "/orders", http_version |-> "1.1",
        headers |-> << <<"x-request-id", "abc">>, <<"host", "svc">> >>,
        has_client |-> FALSE, client_host |-> ""] >>

RequestOf(r) == RequestTable[((r - 1) % Len(RequestTable)) + 1]

\* ------------------------------------------------------------ pure helpers
Digit == <<"0", "1", "2", "3", "4", "5", "6", "7", "8", "9">>

\* str(i) for a non-negative int
RECURSIVE Str(_)
Str(i) == IF i < 10 THEN Digit[i + 1]
          ELSE Str(i \div 10) \o Digit[(i % 10) + 1]

\* headers.get(name, default)
RECURSIVE HeaderGet(_, _, _)
HeaderGet(headers, name, default) ==
    IF headers = << >> THEN default
    ELSE IF Head(headers)[1] = name THEN Head(headers)[2]
    ELSE HeaderGet(Tail(headers), name, default)

\* the headers dict after pop(name)
RECURSIVE HeaderPop(_, _)
HeaderPop(headers, name) ==
    IF headers = << >> THEN << >>
    ELSE IF Head(headers)[1] = name THEN HeaderPop(Tail(headers), name)
    ELSE <<Head(headers)>> \o HeaderPop(Tail(headers), name)

\* k.title() on the header names in use
Title(k) == CASE k = "host" -> "Host"
              [] k = "user-agent" -> "User-Agent"
              [] k = "x-request-id" -> "X-Request-Id"
              [] OTHER -> k

RECURSIVE DumpHeaders(_)
DumpHeaders(headers) ==
    IF headers = << >> THEN ""
    ELSE Title(Head(headers)[1]) \o ": " \o Head(headers)[2] \o "\r\n"
         \o DumpHeaders(Tail(headers))

\* Logger._dump_request(request) with body = False
DumpRequest(req) ==
    req.method \o " " \o req.path \o " HTTP/" \o req.http_version \o "\r\n"
    \o "Host: " \o HeaderGet(req.headers, "host", "") \o "\r\n"
    \o DumpHeaders(HeaderPop(req.headers, "host"))

\* traceback.format_exc() while handling exception exc
FormatExc(exc) == "Traceback (most recent call last):\n" \o exc \o "\n"

\* ------------------------------------------------------------------ state
VARIABLES
    chain,       \* the application's middleware stack, outermost first
    pc,          \* per request: "call", "handler", "ret", "done"
    depth,       \* per request: index in chain of the active middleware
    state,       \* per request: request.state (attrs present, errors, user_id)
    result,      \* per request: what the innermost finished call produced
    start_time,  \* per request: start_time while Logger.dispatch is active
    now,         \* last reading of time.time()
    log,         \* events handed to the logging module, in emission order
    appended,    \* history: texts each request's own steps appended since
                 \* the request's last reset of request.state.errors
    outcome,     \* history: how each request's handler ended and the
                 \* entries it had pushed
    inspected,   \* history: res and errors as Logger.dispatch read them
                 \* at lines 38 and 44
    time_format, \* JsonFormatter: the time_format it was constructed with
    record,      \* the LogRecord last handed to the handler: the items of
                 \* record.__dict__ in order
    formatted,   \* what JsonFormatter.format made of that record
    prev_time    \* history: "time" of the document rendered before it

fmt_vars == <<time_format, record, formatted, prev_time>>

vars == <<chain, pc, depth, state, result, start_time, now, log, appended,
          outcome, inspected, time_format, record, formatted, prev_time>>

NoResult == [kind |-> "none"]
ResponseOf(status, body) == [kind |-> "response", status |-> status, body |-> body]
FaultOf(exc) == [kind |-> "fault", exc |-> exc]

\* JSON-serialisable values: numbers, strings, None; a path is kept as the
\* list of its "/"-separated segments
Num(n) == [num |-> n]
S(x) == [str |-> x]
None == [none |-> TRUE]
PathOf(segs) == [path |-> segs]
IsNum(v) == DOMAIN v = {"num"}

\* format() raised (KeyError on the level table)
FormatFailed == [ok |-> FALSE, doc |-> << >>, text |-> ""]
\* the record has not reached the handler yet
NotFormatted == [ok |-> FALSE, doc |-> << >>, text |-> "-"]

NoOutcome == [result |-> NoResult, entries |-> << >>]
NotInspected == [seen |-> FALSE, errors |-> << >>, res |-> NoResult]

\* variant: one state object serves every request (state kept on the app)
StateKeyShared(r) == 1

\* request.state of request r: the state object of r's own scope
StateKey(r) == r

\* request.state as left by whatever ran before the chain: for request 1 an
\* earlier stage has set user_id and left an errors list with one entry, for
\* request 2 nothing has touched the state
PriorState(r) ==
    IF r = 1
    THEN [attrs |-> {"errors", "user_id"}, errors |-> <<"stale entry">>,
          user_id |-> 7]
    ELSE [attrs |-> {}, errors |-> << >>, user_id |-> -1]

Init ==
    /\ chain \in Chains
    /\ pc = [r \in Requests |-> "call"]
    /\ depth = [r \in Requests |-> 1]
    /\ state = [r \in Requests |-> PriorState(r)]
    /\ result = [r \in Requests |-> NoResult]
    /\ start_time = [r \in Requests |-> 0]
    /\ now = 0
    /\ log = << >>
    /\ appended = [r \in Requests |-> << >>]
    /\ outcome = [r \in Requests |-> NoOutcome]
    /\ inspected = [r \in Requests |-> NotInspected]
    /\ time_format = "seconds"
    /\ record = << >>
    /\ formatted = NotFormatted
    /\ prev_time = None

\* hand control to the next stage down / back to the stage above
Descend(r) ==
    IF depth[r] = Len(chain)
    THEN /\ pc' = [pc EXCEPT ![r] = "handler"]
         /\ UNCHANGED depth
    ELSE /\ depth' = [depth EXCEPT ![r] = @ + 1]
         /\ UNCHANGED pc

Ascend(r) ==
    IF depth[r] = 1
    THEN /\ pc' = [pc EXCEPT ![r] = "done"]
         /\ UNCHANGED depth
    ELSE /\ depth' = [depth EXCEPT ![r] = @ - 1]
         /\ UNCHANGED pc

Active(r, name, at) == pc[r] = at /\ chain[depth[r]] = name

\* one reading of time.time(): the clock does not run backwards here
TimeReads == {t \in now..MaxClock : t <= now + 1}

\* --------------------------------------------------------- Logger.dispatch
\* variant: the list is only created when the state has none yet
ResetErrorsIfAbsent(st) ==
    IF "errors" \in st.attrs THEN st
    ELSE [st EXCEPT !.attrs = @ \cup {"errors"}, !.errors = << >>]

\* request.state.errors = []
ResetErrors(st) == [st EXCEPT !.attrs = @ \cup {"errors"}, !.errors = << >>]

\* getattr(request.state, "user_id", -1)
UserIdOf(st) == IF "user_id" \in st.attrs THEN st.user_id ELSE -1

\* request.client.host if request.client is not None else ""
ClientIp(req) == IF req.has_client THEN req.client_host ELSE ""

\* the `extra` mapping shared by the info and the error events
ExtraFields(req, st, res, latency) ==
    [method |-> req.method,
     url |-> req.path,
     status |-> res.status,
     user_id |-> UserIdOf(st),
     request_id |-> HeaderGet(req.headers, "x-request-id", ""),
     remote_address |-> ClientIp(req),
     user_agent |-> HeaderGet(req.headers, "user-agent", ""),
     latency |-> latency]

\* the record with one more key
WithField(rec, key, val) ==
    [k \in DOMAIN rec \cup {key} |-> IF k = key THEN val ELSE rec[k]]

\* variant: the info event reports a fixed 200 instead of res.status_code
InfoEventFixedStatus(r, req, st, res, latency) ==
    WithField(WithField(WithField(
        ExtraFields(req, st, ResponseOf(200, res.body), latency),
        "req", r), "level", "info"), "msg", req.path)

\* logger.info(path, extra={...})
InfoEvent(r, req, st, res, latency) ==
    WithField(WithField(WithField(ExtraFields(req, st, res, latency),
        "req", r), "level", "info"), "msg", req.path)

\* variant: the index is counted from 1 (enumerate(errors, 1))
ErrorEventFromOne(r, req, st, res, latency, i, error) ==
    WithField(WithField(WithField(WithField(ExtraFields(req, st, res, latency),
        "req", r), "level", "error"), "msg", Str(i + 1)), "error", error)

\* logger.error(str(i), extra={..., "error": str(error)}), i counted from 0
ErrorEvent(r, req, st, res, latency, i, error) ==
    WithField(WithField(WithField(WithField(ExtraFields(req, st, res, latency),
        "req", r), "level", "error"), "msg", Str(i)), "error", error)

\* variant: the latency is taken again for every event of the loop
ErrorEventsLatencyPerEvent(r, req, st, res, latency, errors) ==
    [j \in 1..Len(errors) |->
        ErrorEvent(r, req, st, res, latency + (j - 1), j - 1, errors[j])]

\* for i, error in enumerate(errors): logger.error(...)
ErrorEvents(r, req, st, res, latency, errors) ==
    [j \in 1..Len(errors) |-> ErrorEvent(r, req, st, res, latency, j - 1, errors[j])]

\* variant: the dump is put in front of the entries (errors.insert(0, ...))
WithDumpFirst(errors, req) == <<DumpRequest(req)>> \o errors

\* errors.append(await self._dump_request(request))
WithDump(errors, req) == Append(errors, DumpRequest(req))

\* variant: the comparison is off by one (len(errors) > 1)
IsErroredOffByOne(errors) == Len(errors) > 1

\* `if len(errors) > 0`
IsErrored(errors) == Len(errors) > 0

\* variant: a new response is built from the status code alone
LoggerReturnRebuilt(res) == ResponseOf(res.status, "")

\* `return res`
LoggerReturn(res) == res

\* variant: an info event is emitted when the request comes in
LoggerEnterLogsStart(r) ==
    /\ Active(r, "Logger", "call")
    /\ \E t \in TimeReads :
          /\ now' = t
          /\ start_time' = [start_time EXCEPT ![r] = t]
    /\ state' = [state EXCEPT ![StateKey(r)] = ResetErrors(@)]
    /\ appended' = [appended EXCEPT ![r] = << >>]
    /\ log' = Append(log, InfoEvent(r, RequestOf(r), state[StateKey(r)],
                                    ResponseOf(0, ""), 0))
    /\ Descend(r)
    /\ UNCHANGED <<chain, result, outcome, inspected>>

\* lines 34-38, up to the suspension in call_next
LoggerEnter(r) ==
    /\ Active(r, "Logger", "call")
    /\ \E t \in TimeReads :
          /\ now' = t
          /\ start_time' = [start_time EXCEPT ![r] = t]
    /\ state' = [state EXCEPT ![StateKey(r)] = ResetErrors(@)]
    /\ appended' = [appended EXCEPT ![r] = << >>]
    /\ Descend(r)
    /\ UNCHANGED <<chain, result, log, outcome, inspected>>

\* lines 40-77, after call_next returned a response
LoggerResume(r) ==
    /\ Active(r, "Logger", "ret")
    /\ result[r].kind = "response"
    /\ \E t \in TimeReads :
          LET req == RequestOf(r)
              res == result[r]
              latency == t - start_time[r]
              st == state[StateKey(r)]
              errors == st.errors
          IN /\ now' = t
             /\ inspected' = [inspected EXCEPT ![r] =
                                [seen |-> TRUE, errors |-> errors, res |-> res]]
             /\ IF IsErrored(errors)
                THEN /\ state' = [state EXCEPT ![StateKey(r)].errors =
                                                   WithDump(errors, req)]
                     /\ appended' = [appended EXCEPT ![r] = Append(@, DumpRequest(req))]
                     /\ log' = log \o ErrorEvents(r, req, st, res, latency,
                                                  WithDump(errors, req))
                ELSE /\ log' = Append(log, InfoEvent(r, req, st, res, latency))
                     /\ UNCHANGED <<state, appended>>
    /\ result' = [result EXCEPT ![r] = LoggerReturn(@)]
    /\ start_time' = [start_time EXCEPT ![r] = 0]
    /\ Ascend(r)
    /\ UNCHANGED <<chain, outcome>>

\* variant: Logger.dispatch catches the fault and answers 500 itself
LoggerSwallow(r) ==
    /\ Active(r, "Logger", "ret")
    /\ result[r].kind = "fault"
    /\ result' = [result EXCEPT ![r] = ResponseOf(INTERNAL_SERVER_ERROR, "")]
    /\ start_time' = [start_time EXCEPT ![r] = 0]
    /\ Ascend(r)
    /\ UNCHANGED <<chain, state, now, log, appended, outcome, inspected>>

\* line 38 when call_next raises: nothing catches it
LoggerPropagate(r) ==
    /\ Active(r, "Logger", "ret")
    /\ result[r].kind = "fault"
    /\ start_time' = [start_time EXCEPT ![r] = 0]
    /\ Ascend(r)
    /\ UNCHANGED <<chain, state, result, now, log, appended, outcome, inspected>>

\* ------------------------------------------------------- Recovery.dispatch
\* variant: Response() without a status code, which defaults to 200
RecoveryResponseDefaultStatus == ResponseOf(200, "")

\* Response(status_code=HTTPStatus.INTERNAL_SERVER_ERROR)
RecoveryResponse == ResponseOf(INTERNAL_SERVER_ERROR, "")

\* request.state.errors.append(traceback.format_exc())
AppendError(st, text) == [st EXCEPT !.errors = Append(@, text)]

\* line 84-85, up to the suspension in call_next
RecoveryEnter(r) ==
    /\ Active(r, "Recovery", "call")
    /\ Descend(r)
    /\ UNCHANGED <<chain, state, result, start_time, now, log, appended,
                   outcome, inspected>>

\* line 85, call_next returned
RecoveryReturn(r) ==
    /\ Active(r, "Recovery", "ret")
    /\ result[r].kind = "response"
    /\ Ascend(r)
    /\ UNCHANGED <<chain, state, result, start_time, now, log, appended,
                   outcome, inspected>>

\* variant: the trace is put into the body of the 500 response
RecoveryCatchLeaky(r) ==
    /\ Active(r, "Recovery", "ret")
    /\ result[r].kind = "fault"
    /\ IF "errors" \in state[StateKey(r)].attrs
       THEN /\ state' = [state EXCEPT ![StateKey(r)] =
                                          AppendError(@, FormatExc(result[r].exc))]
            /\ appended' = [appended EXCEPT ![r] = Append(@, FormatExc(result[r].exc))]
            /\ result' = [result EXCEPT ![r] =
                  ResponseOf(INTERNAL_SERVER_ERROR, FormatExc(result[r].exc))]
       ELSE /\ result' = [result EXCEPT ![r] = FaultOf("AttributeError")]
            /\ UNCHANGED <<state, appended>>
    /\ Ascend(r)
    /\ UNCHANGED <<chain, start_time, now, log, outcome, inspected>>

\* lines 86-88, call_next raised; without request.state.errors the handler
\* itself raises AttributeError
RecoveryCatch(r) ==
    /\ Active(r, "Recovery", "ret")
    /\ result[r].kind = "fault"
    /\ IF "errors" \in state[StateKey(r)].attrs
       THEN /\ state' = [state EXCEPT ![StateKey(r)] =
                                          AppendError(@, FormatExc(result[r].exc))]
            /\ appended' = [appended EXCEPT ![r] = Append(@, FormatExc(result[r].exc))]
            /\ result' = [result EXCEPT ![r] = RecoveryResponse]
       ELSE /\ result' = [result EXCEPT ![r] = FaultOf("AttributeError")]
            /\ UNCHANGED <<state, appended>>
    /\ Ascend(r)
    /\ UNCHANGED <<chain, start_time, now, log, outcome, inspected>>

\* ------------------------------------------------------- the route handler
\* request.state.errors.append(text) in handler code
HandlerAppend(r) ==
    /\ pc[r] = "handler"
    /\ "errors" \in state[StateKey(r)].attrs
    /\ Len(state[StateKey(r)].errors) < MaxHandlerErrors
    /\ LET text == HandlerText(Len(state[StateKey(r)].errors) + 1)
       IN /\ state' = [state EXCEPT ![StateKey(r)] = AppendError(@, text)]
          /\ appended' = [appended EXCEPT ![r] = Append(@, text)]
    /\ UNCHANGED <<chain, pc, depth, result, start_time, now, log, outcome,
                   inspected>>

HandlerReturn(r, status) ==
    /\ pc[r] = "handler"
    /\ result' = [result EXCEPT ![r] = ResponseOf(status, HandlerBody)]
    /\ outcome' = [outcome EXCEPT ![r] =
                      [result |-> ResponseOf(status, HandlerBody),
                       entries |-> appended[r]]]
    /\ pc' = [pc EXCEPT ![r] = "ret"]
    /\ UNCHANGED <<chain, depth, state, start_time, now, log, appended, inspected>>

HandlerRaise(r, exc) ==
    /\ pc[r] = "handler"
    /\ result' = [result EXCEPT ![r] = FaultOf(exc)]
    /\ outcome' = [outcome EXCEPT ![r] =
                      [result |-> FaultOf(exc), entries |-> appended[r]]]
    /\ pc' = [pc EXCEPT ![r] = "ret"]
    /\ UNCHANGED <<chain, depth, state, start_time, now, log, appended, inspected>>

Next ==
    /\ \E r \in Requests :
        \/ LoggerEnter(r)
        \/ LoggerResume(r)
        \/ LoggerPropagate(r)
        \/ RecoveryEnter(r)
        \/ RecoveryReturn(r)
        \/ RecoveryCatch(r)
        \/ HandlerAppend(r)
        \/ \E status \in Statuses : HandlerReturn(r, status)
        \/ \E exc \in Faults : HandlerRaise(r, exc)
    /\ UNCHANGED fmt_vars

Spec == Init /\ [][Next]_vars

\* ----------------------------------------------------------- JsonFormatter
\* A dict is the sequence of its <<key, value>> items in insertion order.
Keys(d) == [i \in 1..Len(d) |-> d[i][1]]
DictHas(d, k) == \E i \in 1..Len(d) : d[i][1] = k
DictGet(d, k) == d[CHOOSE i \in 1..Len(d) : d[i][1] = k][2]

\* d[k] = v: a key already present keeps its place and takes the new value
DictSet(d, k, v) ==
    IF DictHas(d, k)
    THEN [i \in 1..Len(d) |-> IF d[i][1] = k THEN <<k, v>> ELSE d[i]]
    ELSE Append(d, <<k, v>>)

\* JsonFormatter._DEFAULT_KEYS
DEFAULT_KEYS ==
    {"args", "asctime", "created", "exc_info", "exc_text", "filename",
     "funcName", "levelname", "levelno", "lineno", "module", "msecs",
     "message", "msg", "name", "pathname", "process", "processName",
     "relativeCreated", "stack_info", "thread", "threadName"}

\* logging's level numbers and names
CRITICAL == 50
ERROR == 40
WARNING == 30
INFO == 20
DEBUG == 10
\* a level registered with logging.addLevelName
NOTICE == 25
LevelNos == {CRITICAL, ERROR, WARNING, NOTICE, INFO, DEBUG}
LevelName(levelno) ==
    CASE levelno = CRITICAL -> "CRITICAL"
      [] levelno = ERROR -> "ERROR"
      [] levelno = WARNING -> "WARNING"
      [] levelno = INFO -> "INFO"
      [] levelno = DEBUG -> "DEBUG"
      [] OTHER -> "NOTICE"

\* JsonFormatter._LEVEL_TO_LOWER_NAME
LEVEL_TO_LOWER_NAME ==
    [l \in {CRITICAL, ERROR, WARNING, INFO, DEBUG} |->
        CASE l = CRITICAL -> "fatal"
          [] l = ERROR -> "error"
          [] l = WARNING -> "warn"
          [] l = INFO -> "info"
          [] l = DEBUG -> "debug"]

\* Where the logging calls come from and what they log: (pathname split at
\* "/", lineno, msg).
Sources ==
    { [pathname |-> <<"", "srv", "app", "middleware", "logger.py">>,
       lineno |-> 64, msg |-> S("/health")],
      [pathname |-> <<"main.py">>, lineno |-> 7, msg |-> Num(0)] }

\* Names and values of the fields callers attach with extra={...}.
ExtraNames == {"status", "level", "time", "_private"}
ExtraValue(k) ==
    CASE k = "status" -> Num(200)
      [] k = "level" -> S("custom")
      [] k = "time" -> S("yesterday")
      [] OTHER -> S("x")

\* k.startswith("_") on the names in use
StartsWithUnderscore(k) == k \in {"_private"}

\* LogRecord.__init__: the items of record.__dict__ (logThreads and
\* logMultiprocessing are off)
MakeRecord(levelno, src, t) ==
    << <<"name", S("app")>>,
       <<"msg", src.msg>>,
       <<"args", None>>,
       <<"levelname", S(LevelName(levelno))>>,
       <<"levelno", Num(levelno)>>,
       <<"pathname", PathOf(src.pathname)>>,
       <<"filename", S(src.pathname[Len(src.pathname)])>>,
       <<"module", S("logger")>>,
       <<"exc_info", None>>,
       <<"exc_text", None>>,
       <<"stack_info", None>>,
       <<"lineno", Num(src.lineno)>>,
       <<"funcName", S("dispatch")>>,
       <<"created", Num(t)>>,
       <<"msecs", Num(0)>>,
       <<"relativeCreated", Num(t)>>,
       <<"thread", None>>,
       <<"threadName", None>>,
       <<"processName", None>>,
       <<"process", None>> >>

\* number of items LogRecord.__init__ itself puts into record.__dict__
RecordAttrs == 20

\* "%02d" and "%03d"
Pad2(n) == IF n < 10 THEN "0" \o Str(n) ELSE Str(n)
Pad3(n) == IF n < 10 THEN "00" \o Str(n)
           ELSE IF n < 100 THEN "0" \o Str(n) ELSE Str(n)

\* JsonFormatter._seconds
Seconds(rec) == DictGet(rec, "created")

\* JsonFormatter._iso8601, for the first minute of the epoch in UTC
Iso8601(rec) ==
    S("1970-01-01T00:00:" \o Pad2(DictGet(rec, "created").num) \o "."
      \o Pad3(DictGet(rec, "msecs").num) \o "+0000")

\* self._convert_time as __init__ selects it
ConvertTime(fmt, rec) == IF fmt = "seconds" THEN Seconds(rec) ELSE Iso8601(rec)

\* "/".join(segments)
RECURSIVE JoinSlash(_)
JoinSlash(segs) ==
    IF Len(segs) = 0 THEN ""
    ELSE IF Len(segs) = 1 THEN segs[1]
    ELSE segs[1] \o "/" \o JoinSlash(Tail(segs))

\* segments[-2:]
LastTwo(segs) == IF Len(segs) <= 2 THEN segs ELSE SubSeq(segs, Len(segs) - 1, Len(segs))

\* "/".join(record.pathname.split("/")[-2:]) + f":{record.lineno}"
Caller(rec) ==
    JoinSlash(LastTwo(DictGet(rec, "pathname").path)) \o ":"
    \o Str(DictGet(rec, "lineno").num)

\* lines 154-159
FixedFields(fmt, rec) ==
    << <<"level", S(LEVEL_TO_LOWER_NAME[DictGet(rec, "levelno").num])>>,
       <<"time", ConvertTime(fmt, rec)>>,
       <<"caller", S(Caller(rec))>>,
       <<"msg", DictGet(rec, "msg")>> >>

\* variant: the test for the "_" prefix is left out
RECURSIVE WithExtrasKeepPrivate(_, _)
WithExtrasKeepPrivate(msg_dict, items) ==
    IF items = << >> THEN msg_dict
    ELSE LET k == Head(items)[1]
             v == Head(items)[2]
         IN WithExtrasKeepPrivate(
                IF k \notin DEFAULT_KEYS
                THEN DictSet(msg_dict, k, v) ELSE msg_dict,
                Tail(items))

\* lines 162-164: for k, v in record.__dict__.items(): ...
RECURSIVE WithExtras(_, _)
WithExtras(msg_dict, items) ==
    IF items = << >> THEN msg_dict
    ELSE LET k == Head(items)[1]
             v == Head(items)[2]
         IN WithExtras(
                IF k \notin DEFAULT_KEYS /\ ~StartsWithUnderscore(k)
                THEN DictSet(msg_dict, k, v) ELSE msg_dict,
                Tail(items))

\* json.dumps of one value
JsonValue(v) ==
    IF DOMAIN v = {"num"} THEN (IF v.num < 0 THEN "-" \o Str(0 - v.num) ELSE Str(v.num))
    ELSE IF DOMAIN v = {"str"} THEN "\"" \o v.str \o "\""
    ELSE IF DOMAIN v = {"path"} THEN "\"" \o JoinSlash(v.path) \o "\""
    ELSE "null"

RECURSIVE JsonItems(_)
JsonItems(d) ==
    IF d = << >> THEN ""
    ELSE "\"" \o Head(d)[1] \o "\": " \o JsonValue(Head(d)[2])
         \o (IF Len(d) > 1 THEN ", " ELSE "") \o JsonItems(Tail(d))

\* json.dumps(msg_dict, indent=None)
JsonDumps(d) == "{" \o JsonItems(d) \o "}"

\* JsonFormatter.format(record); the level table raises KeyError for a level
\* it does not hold
Format(fmt, rec) ==
    IF DictGet(rec, "levelno").num \notin DOMAIN LEVEL_TO_LOWER_NAME
    THEN FormatFailed
    ELSE LET msg_dict == WithExtras(FixedFields(fmt, rec), rec)
         IN [ok |-> TRUE, doc |-> msg_dict, text |-> JsonDumps(msg_dict)]

\* logger.log(levelno, msg, ...) creates the record; created = time.time()
CreateRecord(levelno, src) ==
    /\ \E t \in TimeReads :
          /\ now' = t
          /\ record' = MakeRecord(levelno, src, t)
    /\ formatted' = NotFormatted
    /\ prev_time' = IF formatted.ok THEN DictGet(formatted.doc, "time") ELSE prev_time
    /\ UNCHANGED <<chain, pc, depth, state, result, start_time, log, appended,
                   outcome, inspected, time_format>>

\* one field of `extra` is copied into record.__dict__; logging refuses a
\* name the record already holds
AttachField(k) ==
    /\ record # << >>
    /\ formatted = NotFormatted
    /\ Len(record) - RecordAttrs < MaxExtras
    /\ ~DictHas(record, k)
    /\ record' = Append(record, <<k, ExtraValue(k)>>)
    /\ UNCHANGED <<chain, pc, depth, state, result, start_time, now, log,
                   appended, outcome, inspected, time_format, formatted,
                   prev_time>>

\* the StreamHandler formats the record
HandleRecord ==
    /\ record # << >>
    /\ formatted = NotFormatted
    /\ formatted' = Format(time_format, record)
    /\ UNCHANGED <<chain, pc, depth, state, result, start_time, now, log,
                   appended, outcome, inspected, time_format, record, prev_time>>

\* JsonFormatter(time_format) installed on the handler; no request in flight
InitFmt ==
    /\ chain = <<"Logger", "Recovery">>
    /\ pc = [r \in Requests |-> "done"]
    /\ depth = [r \in Requests |-> 1]
    /\ state = [r \in Requests |-> PriorState(r)]
    /\ result = [r \in Requests |-> NoResult]
    /\ start_time = [r \in Requests |-> 0]
    /\ now = 0
    /\ log = << >>
    /\ appended = [r \in Requests |-> << >>]
    /\ outcome = [r \in Requests |-> NoOutcome]
    /\ inspected = [r \in Requests |-> NotInspected]
    /\ time_format \in {"seconds", "iso8601"}
    /\ record = << >>
    /\ formatted = NotFormatted
    /\ prev_time = None

NextFmt ==
    \/ \E levelno \in LevelNos, src \in Sources : CreateRecord(levelno, src)
    \/ \E k \in ExtraNames : AttachField(k)
    \/ HandleRecord

SpecFmt == InitFmt /\ [][NextFmt]_vars

\* ================================================================ claims
EventsOf(r) == SelectSeq(log, LAMBDA e : e.req = r)

\* request r took a step of its own
Stepped(r) == <<pc[r], depth[r]>> # <<pc'[r], depth'[r]>>

\* C1: a request whose errors list is empty when Logger.dispatch inspects it
\* gets exactly one event: level info, msg = the request path, status = the
\* status code of the response call_next returned.
C1_CleanRequestOneInfoEvent ==
    \A r \in Requests :
        (inspected[r].seen /\ Len(inspected[r].errors) = 0) =>
            LET ev == EventsOf(r)
            IN /\ Len(ev) = 1
               /\ ev[1].level = "info"
               /\ ev[1].msg = RequestOf(r).path
               /\ ev[1].status = inspected[r].res.status

C1_Witness ==
    \E r \in Requests :
        /\ inspected[r].seen
        /\ Len(inspected[r].errors) = 0
        /\ inspected[r].res.status = 400
        /\ Len(EventsOf(r)) = 1

\* C2: a request whose errors list holds N >= 1 entries at inspection gets
\* exactly N+1 events, all at error level (no info event), all with the same
\* latency, method, url and status.
C2_ErroredRequestEvents ==
    \A r \in Requests :
        (inspected[r].seen /\ Len(inspected[r].errors) >= 1) =>
            LET ev == EventsOf(r)
            IN /\ Len(ev) = Len(inspected[r].errors) + 1
               /\ \A i \in 1..Len(ev) : ev[i].level = "error"
               /\ \A i, j \in 1..Len(ev) :
                     /\ ev[i].latency = ev[j].latency
                     /\ ev[i].method = ev[j].method
                     /\ ev[i].url = ev[j].url
                     /\ ev[i].status = ev[j].status

C2_Witness ==
    \E r \in Requests :
        /\ inspected[r].seen
        /\ Len(inspected[r].errors) = 2
        /\ Len(EventsOf(r)) = 3
        /\ EventsOf(r)[1].latency = 1

\* C3: when call_next raises inside Recovery.dispatch and request.state.errors
\* exists, Recovery.dispatch returns a response with status 500, appends
\* exactly one entry (the trace) to errors, and raises nothing.
C3_RecoveryCatchesEveryFault ==
    [][\A r \in Requests :
          (/\ Active(r, "Recovery", "ret")
           /\ result[r].kind = "fault"
           /\ "errors" \in state[r].attrs
           /\ Stepped(r)) =>
              /\ result'[r].kind = "response"
              /\ result'[r].status = 500
              /\ state'[r].errors =
                    Append(state[r].errors, FormatExc(result[r].exc))]_vars

C3_Witness ==
    \E r \in Requests :
        /\ chain = <<"Recovery", "Logger">>
        /\ pc[r] = "done"
        /\ outcome[r].result = FaultOf("CancelledError")
        /\ result[r].kind = "response"
        /\ state[r].errors = <<FormatExc("CancelledError")>>
        /\ EventsOf(r) = << >>

Composed == chain = <<"Logger", "Recovery">>

\* C4: with Logger over Recovery over the handler, a handler that raises
\* without having recorded an entry gives the client status 500 with an empty
\* body, and exactly 2 events, both at error level with status 500 and
\* url = path: first the trace, then the request dump.
C4_UnhandledFaultTwoEvents ==
    \A r \in Requests :
        (/\ Composed
         /\ pc[r] = "done"
         /\ outcome[r].result.kind = "fault"
         /\ outcome[r].entries = << >>) =>
            LET ev == EventsOf(r)
            IN /\ result[r].kind = "response"
               /\ result[r].status = 500
               /\ result[r].body = ""
               /\ Len(ev) = 2
               /\ \A i \in 1..2 : /\ ev[i].level = "error"
                                  /\ ev[i].status = 500
                                  /\ ev[i].url = RequestOf(r).path
               /\ ev[1].error = FormatExc(outcome[r].result.exc)
               /\ ev[2].error = DumpRequest(RequestOf(r))

C4_Witness ==
    \E r \in Requests :
        /\ Composed
        /\ pc[r] = "done"
        /\ outcome[r].result = FaultOf("ValueError")
        /\ outcome[r].entries = << >>
        /\ RequestOf(r).path = "/orders"
        /\ Len(EventsOf(r)) = 2

\* C5: with Logger over Recovery over the handler, a handler that records
\* k >= 1 entries and returns normally with a status s other than 500 gets
\* exactly k+1 events, all at error level with status s, and the client
\* receives the handler's response with status s.
C5_HandledErrorsKeepStatus ==
    \A r \in Requests :
        (/\ Composed
         /\ pc[r] = "done"
         /\ outcome[r].result.kind = "response"
         /\ outcome[r].result.status # 500
         /\ Len(outcome[r].entries) >= 1) =>
            LET ev == EventsOf(r)
            IN /\ Len(ev) = Len(outcome[r].entries) + 1
               /\ \A i \in 1..Len(ev) :
                     /\ ev[i].level = "error"
                     /\ ev[i].status = outcome[r].result.status
               /\ result[r] = outcome[r].result

C5_Witness ==
    \E r \in Requests :
        /\ Composed
        /\ pc[r] = "done"
        /\ outcome[r].result = ResponseOf(400, HandlerBody)
        /\ Len(outcome[r].entries) = 2
        /\ Len(EventsOf(r)) = 3

C5_WitnessOneEntry ==
    \E r \in Requests :
        /\ Composed
        /\ pc[r] = "done"
        /\ outcome[r].result = ResponseOf(200, HandlerBody)
        /\ Len(outcome[r].entries) = 1
        /\ Len(EventsOf(r)) = 2

\* C6: on the errored path the events follow the entries of the extended
\* errors list: event i (from 0) has msg = str(i) and error = entry i, and the
\* request dump is the last event, at index = number of original entries.
C6_EventsFollowEntries ==
    \A r \in Requests :
        (inspected[r].seen /\ Len(inspected[r].errors) >= 1) =>
            LET ev == EventsOf(r)
                n == Len(inspected[r].errors)
            IN /\ Len(ev) = n + 1
               /\ \A i \in 0..(n - 1) :
                     /\ ev[i + 1].msg = Str(i)
                     /\ ev[i + 1].error = inspected[r].errors[i + 1]
               /\ ev[n + 1].msg = Str(n)
               /\ ev[n + 1].error = DumpRequest(RequestOf(r))
               /\ ev[1].msg = "0"

C6_Witness ==
    \E r \in Requests :
        /\ inspected[r].seen
        /\ inspected[r].errors = <<HandlerText(1), FormatExc("ValueError")>>
        /\ Len(EventsOf(r)) = 3
        /\ EventsOf(r)[3].msg = "2"

\* C7 as stated: Logger.dispatch never raises to its caller, whatever
\* call_next does.
C7_LoggerNeverRaises ==
    [][\A r \in Requests :
          (Active(r, "Logger", "ret") /\ Stepped(r)) =>
              result'[r].kind = "response"]_vars

\* C7 amended: Logger.dispatch raises nothing of its own. When call_next
\* returns a response it returns a response; when call_next raises, that
\* fault reaches the caller of Logger.dispatch as it is.
C7_LoggerRaisesOnlyWhatCallNextRaises ==
    [][\A r \in Requests :
          (Active(r, "Logger", "ret") /\ Stepped(r)) =>
              /\ result'[r].kind = result[r].kind
              /\ result[r].kind = "fault" => result'[r] = result[r]]_vars

C7_Witness ==
    \E r \in Requests :
        /\ chain = <<"Logger">>
        /\ pc[r] = "done"
        /\ result[r] = FaultOf("ValueError")
        /\ EventsOf(r) = << >>

\* C8: Logger.dispatch returns the response call_next returned, status and
\* content unaltered, on the clean and on the errored path.
C8_ResponsePassedThrough ==
    \A r \in Requests :
        inspected[r].seen => result[r] = inspected[r].res

C8_Witness ==
    \E r \in Requests :
        /\ inspected[r].seen
        /\ Len(inspected[r].errors) >= 1
        /\ pc[r] = "done"
        /\ result[r] = ResponseOf(400, HandlerBody)

C8_WitnessClean ==
    \E r \in Requests :
        /\ inspected[r].seen
        /\ Len(inspected[r].errors) = 0
        /\ pc[r] = "done"
        /\ result[r] = ResponseOf(200, HandlerBody)

IsPrefix(s, t) == Len(s) <= Len(t) /\ \A i \in 1..Len(s) : s[i] = t[i]

\* C9: under every interleaving, a request's errors list holds what was
\* there before the chain (or nothing, once Logger reset it) followed by the
\* entries its own handler, Recovery and Logger steps appended, and the
\* error events of the request carry exactly those entries.
C9_ErrorsOwnedByRequest ==
    \A r \in Requests :
        /\ \/ state[r].errors = appended[r]
           \/ state[r].errors = PriorState(r).errors \o appended[r]
        /\ LET ev == EventsOf(r)
           IN \A i \in 1..Len(ev) :
                 "error" \in DOMAIN ev[i] =>
                     /\ i <= Len(appended[r])
                     /\ ev[i].error = appended[r][i]

C9_Witness ==
    /\ Composed
    /\ pc[1] = "handler"
    /\ pc[2] = "done"
    /\ Len(state[1].errors) = 1
    /\ Len(state[2].errors) = 3
    /\ Len(EventsOf(2)) = 3

\* C10: Logger.dispatch puts a fresh empty errors list on the request before
\* call_next, whatever the state held before, and every event carries an
\* entry appended after that reset.
C10_ErrorsResetBeforeCallNext ==
    [][/\ \A r \in Requests :
            (Active(r, "Logger", "call") /\ Stepped(r)) =>
                /\ "errors" \in state'[r].attrs
                /\ state'[r].errors = << >>
       /\ \A i \in (Len(log) + 1)..Len(log') :
            "error" \in DOMAIN log'[i] =>
                /\ log'[i].error # "stale entry"
                /\ \E k \in 1..Len(appended'[log'[i].req]) :
                      appended'[log'[i].req][k] = log'[i].error]_vars

C10_Witness ==
    \E r \in Requests :
        /\ PriorState(r).errors = <<"stale entry">>
        /\ chain[1] = "Logger"
        /\ pc[r] = "done"
        /\ inspected[r].seen
        /\ inspected[r].errors = << >>
        /\ Len(EventsOf(r)) = 1

\* Recovery.dispatch answered the fault of r's handler with a response
Recovered(r) == outcome[r].result.kind = "fault" /\ result[r].kind = "response"

\* C11: whatever the fault, the response Recovery.dispatch returns for it is
\* the same: status 500 and an empty body. Two requests recovered from
\* different faults hold equal responses; the trace is only in errors.
C11_RecoveryResponseIndependentOfFault ==
    \A r, q \in Requests :
        (Recovered(r) /\ Recovered(q)) =>
            /\ result[r] = result[q]
            /\ result[r].status = 500
            /\ result[r].body = ""
            /\ \E k \in 1..Len(state[r].errors) :
                  state[r].errors[k] = FormatExc(outcome[r].result.exc)

C11_Witness ==
    /\ Recovered(1)
    /\ Recovered(2)
    /\ outcome[1].result = FaultOf("ValueError")
    /\ outcome[2].result = FaultOf("CancelledError")

\* C16: after the reset at the start of Logger.dispatch the errors list only
\* grows at its end: every other step keeps the entries in place and in order
\* and appends at most one.
C16_ErrorsAppendOnly ==
    [][\A r \in Requests :
          ~(Active(r, "Logger", "call") /\ Stepped(r)) =>
              /\ IsPrefix(state[r].errors, state'[r].errors)
              /\ Len(state'[r].errors) <= Len(state[r].errors) + 1]_vars

C16_Witness ==
    \E r \in Requests :
        /\ Composed
        /\ pc[r] = "done"
        /\ state[r].errors = <<HandlerText(1), FormatExc("ValueError"),
                               DumpRequest(RequestOf(r))>>

\* C17: Logger.dispatch appends the request dump at most once, and only when
\* errors is non-empty at inspection; once it has returned, errors holds
\* either no entry or at least two, never exactly one.
C17_ErrorsNeverSingleAfterLogger ==
    \A r \in Requests :
        inspected[r].seen =>
            /\ Len(state[r].errors) # 1
            /\ Len(inspected[r].errors) = 0 => state[r].errors = << >>
            /\ Len(inspected[r].errors) >= 1 =>
                  state[r].errors =
                      Append(inspected[r].errors, DumpRequest(RequestOf(r)))

C17_Witness ==
    \E r \in Requests :
        /\ inspected[r].seen
        /\ pc[r] = "done"
        /\ Len(inspected[r].errors) = 1
        /\ Len(state[r].errors) = 2

C17_WitnessClean ==
    \E r \in Requests :
        /\ inspected[r].seen
        /\ pc[r] = "done"
        /\ state[r].errors = << >>

\* C18: no event of a request is emitted before call_next has returned for
\* it, and the events of one request are contiguous in the log: no event of
\* another request lies between two events of the same request.
C18_EventsAfterCallNextAndContiguous ==
    /\ \A r \in Requests : ~inspected[r].seen => EventsOf(r) = << >>
    /\ \A i, j, k \in 1..Len(log) :
          (i < j /\ j < k /\ log[i].req = log[k].req) => log[j].req = log[i].req

C18_Witness ==
    /\ Len(EventsOf(1)) >= 2
    /\ Len(EventsOf(2)) >= 2
    /\ log[1].req = 2

\* the fields attached to the record, after LogRecord's own attributes
AttachedNames == [i \in 1..(Len(record) - RecordAttrs) |-> record[RecordAttrs + i][1]]

FixedKeys == <<"level", "time", "caller", "msg">>

\* C12: in every document JsonFormatter.format produces, the four fixed keys
\* hold the values derived from the record's level, creation time, source
\* location and message: an attached field of the same name is dropped.
C12_FixedKeysKeepRecordValues ==
    formatted.ok =>
        /\ DictGet(formatted.doc, "level") =
              S(LEVEL_TO_LOWER_NAME[DictGet(record, "levelno").num])
        /\ DictGet(formatted.doc, "time") = ConvertTime(time_format, record)
        /\ DictGet(formatted.doc, "caller") = S(Caller(record))
        /\ DictGet(formatted.doc, "msg") = DictGet(record, "msg")

\* C13: for a record at CRITICAL, ERROR, WARNING, INFO or DEBUG, format
\* succeeds, the document starts with level, time, caller, msg in that order,
\* level is fatal / error / warn / info / debug respectively and msg is the
\* record's message.
C13_FiveLevelsRendered ==
    (formatted # NotFormatted
     /\ DictGet(record, "levelno").num \in {50, 40, 30, 20, 10}) =>
        /\ formatted.ok
        /\ SubSeq(Keys(formatted.doc), 1, 4) = FixedKeys
        /\ DictGet(formatted.doc, "level") =
              S(CASE DictGet(record, "levelno").num = 50 -> "fatal"
                  [] DictGet(record, "levelno").num = 40 -> "error"
                  [] DictGet(record, "levelno").num = 30 -> "warn"
                  [] DictGet(record, "levelno").num = 20 -> "info"
                  [] OTHER -> "debug")
        /\ DictGet(formatted.doc, "msg") = DictGet(record, "msg")

C14_WitnessPrivate ==
    /\ formatted.ok
    /\ AttachedNames = <<"status", "_private">>
    /\ Len(formatted.doc) = 5

\* C15: with time_format "seconds", the time of each rendered document is a
\* number, and not smaller than the time of the document rendered before it.
C15_SecondsNumericNonDecreasing ==
    (time_format = "seconds" /\ formatted.ok) =>
        /\ IsNum(DictGet(formatted.doc, "time"))
        /\ IsNum(prev_time) => prev_time.num <= DictGet(formatted.doc, "time").num
        /\ prev_time # None => IsNum(prev_time)

====
